---- MODULE Spec2Model ----
(***************************************************************************)
(* Model of the 360 panorama tools: tilecreator.py (level planner, forward *)
(* projection, tile writer), tocubemap.py (forward projection) and         *)
(* tosphere.py (inverse projection and its input validation).              *)
(***************************************************************************)
EXTENDS Integers, Naturals, Sequences, FiniteSets, TLC

VARIABLES
    pc,            \* position in the function that is running
    \* tilecreator.process_image
    width,         \* W, the source width
    level_sizes,   \* result of compute_level_sizes(W)
    face_n,        \* index into FACES of the face being processed
    li,            \* 1-based index of the next level to save for that face
    face_img,      \* the live full-resolution render, or None
    renders,       \* every call of equirect_to_face so far: <<face, size>>
    live,          \* the renders held in memory: indices into renders
    out_dir,       \* the tile files written so far
    \* tosphere.faces_to_equirect, one output pixel
    fwd,           \* the face point [face, un, vn, den, scale] the direction is of, or None
    dir,           \* the direction <<dx, dy, dz>> of the pixel
    face_idx,      \* 0=f 1=b 2=r 3=l 4=u 5=d, or None before the assignment
    uv,            \* <<uv_u, uv_v>> as fractions, or None
    \* the bilinear samplers of equirect_to_face and faces_to_equirect, one pixel
    img_np,        \* the sampled buffer, one channel: img_np[y][x]
    px,            \* fractional column, in units of 2^-FracBits
    py,            \* fractional row, in units of 2^-FracBits
    sampled,       \* what the sampler computed for the pixel, or None
    \* tosphere.process_panorama
    face_paths,    \* the six face files: face key -> <<w, h>> of the image
    load_n,        \* index into FACES of the next face to load
    face_size,     \* the expected side length, NoSize before the first face
    face_imgs,     \* the faces loaded so far
    result_np,     \* the projection's result [out_w, out_h], or None
    saved,         \* whether the output file was written
    ret,           \* the return value: "True", "False", or "running"
    \* tosphere.collect_panoramas
    files,         \* the files that exist: [dir, name, ext]
    args,          \* the paths of the command line: [dir, stem, ext]
    path_n,        \* 1-based position of collect_panoramas in the paths
    seen,          \* the (directory, prefix) pairs dealt with
    panoramas,     \* the list collect_panoramas builds and returns
    warnings,      \* the warnings collect_panoramas printed
    \* main of the three tools
    tool,          \* "tilecreator", "tocubemap", "tosphere", or "none"
    images,        \* args.images: for each path whether os.path.isfile holds
    pos,           \* 1-based position of the main loop in its list
    failed,        \* the counter of main
    log,           \* the inputs the loop has dealt with, and how each ended
    status         \* the argument of sys.exit, NoStatus while main runs

tileVars == <<width, level_sizes, face_n, li, face_img, renders, live, out_dir>>
dirVars == <<fwd, dir, face_idx, uv>>
sampleVars == <<img_np, px, py, sampled>>
panoVars == <<face_paths, load_n, face_size, face_imgs, result_np, saved, ret>>

collectVars == <<files, args, path_n, seen, panoramas, warnings>>
mainVars == <<tool, images, pos, failed, log, status>>
cliVars == <<collectVars, mainVars>>

vars == <<pc, tileVars, dirVars, sampleVars, panoVars, cliVars>>

None == [none |-> TRUE]

\* face_size: int | None = None; no image has a side of 0
NoSize == 0

\* the exit status while main has not called sys.exit; sys.exit gets 0 or 1
NoStatus == -1

-----------------------------------------------------------------------------
(* Bounds of the model *)

MaxWidth == 21000
MaxTileWidth == 11000
WidthStride == 50
\* direction components are drawn from -MaxCoord .. MaxCoord
MaxCoord == 4
\* the sampled buffers are at most MaxBufW x MaxBufH
MaxBufW == 3
MaxBufH == 2
\* pixel coordinates are multiples of 2^-FracBits; their fractional parts are
\* the multiples of WeightStride * 2^-FracBits
FracBits == 10
WeightStride == 93
\* the face images are at most MaxFaceSide x MaxFaceSide
MaxFaceSide == 2
\* at most MaxMissing face files of the two panoramas are missing
MaxMissing == 1
\* the command line of tosphere.py has at most MaxArgs paths
MaxArgs == 2
\* the command line of tilecreator.py and tocubemap.py has at most MaxImages paths
MaxImages == 3
\* face points are the fractions with a denominator of at most GridDen
GridDen == 3
\* directions of face points are scaled by 1 .. MaxScale
MaxScale == 2

-----------------------------------------------------------------------------
(* Constants of the program *)

TILE_SIZE == 512
FACES == <<"f", "b", "r", "l", "u", "d">>

\* math.pi as a ratio.  round(W / pi / 128) computed with 355/113 agrees with
\* the floating-point value for every W from 0 to 60000.
PiNum == 355
PiDen == 113

\* the width of the docstring's example, and the width the "too small" message names
ExampleWidth == 20906
TooSmallWidth == 2011

-----------------------------------------------------------------------------
(* compute_level_sizes *)

\* round(width / math.pi / 128): the quotient is never a tie, so rounding to
\* nearest is floor(x + 1/2).
RoundFaceUnits(w) == (2 * w * PiDen + 128 * PiNum) \div (256 * PiNum)

\* a planner that truncates where the code rounds
max_level_floor(w) == ((w * PiDen) \div (128 * PiNum)) * 128

max_level(w) == RoundFaceUnits(w) * 128

\* a planner that halves without flooring to 128
NextLevel_halve(current) == current \div 2

\* current = (current // 256) * 128
NextLevel(current) == (current \div 256) * 128

\* a planner whose loop also keeps a level equal to the tile size
RECURSIVE LevelLoop_ge(_)
LevelLoop_ge(current) ==
    IF current >= TILE_SIZE
    THEN <<current>> \o LevelLoop_ge((current \div 256) * 128)
    ELSE <<>>

\* the while loop: levels in the order they are appended (descending)
RECURSIVE LevelLoop(_)
LevelLoop(current) ==
    IF current > TILE_SIZE
    THEN <<current>> \o LevelLoop(NextLevel(current))
    ELSE <<>>

\* sorted(levels): insertion of each element into an ascending sequence
RECURSIVE InsertAsc(_, _)
InsertAsc(x, s) ==
    IF s = <<>> THEN <<x>>
    ELSE IF x <= Head(s) THEN <<x>> \o s
    ELSE <<Head(s)>> \o InsertAsc(x, Tail(s))

RECURSIVE sorted(_)
sorted(s) == IF s = <<>> THEN <<>> ELSE InsertAsc(Head(s), sorted(Tail(s)))

compute_level_sizes(w) == sorted(LevelLoop(max_level(w)))

-----------------------------------------------------------------------------
(* save_tiles *)

\* a tile count that rounds up where the code floors
TilesPerAxis_ceil(level_size) == (level_size + TILE_SIZE - 1) \div TILE_SIZE

\* n = level_size // TILE_SIZE
TilesPerAxis(level_size) == level_size \div TILE_SIZE

\* resized.crop((left, upper, right, lower)) for 0-based row and col
CropBox(row, col) ==
    [left  |-> col * TILE_SIZE,       upper |-> row * TILE_SIZE,
     right |-> (col + 1) * TILE_SIZE, lower |-> (row + 1) * TILE_SIZE]

\* the files one call of save_tiles writes; row and col of the name are 1-based
save_tiles(img, face, level_idx, level_size) ==
    LET count == TilesPerAxis(level_size)
    IN  { [face |-> face, level |-> level_idx, size |-> level_size,
           src |-> img.id, resized |-> img.size # level_size,
           row |-> row + 1, col |-> col + 1, box |-> CropBox(row, col)] :
          row \in 0 .. count - 1, col \in 0 .. count - 1 }

-----------------------------------------------------------------------------
(* process_image of tilecreator.py *)

PipelineWidths == { w \in 1 .. MaxTileWidth : w % WidthStride = 0 }

\* the variables of a tool that is not running
IdleTiles ==
    /\ width = 0
    /\ level_sizes = <<>>
    /\ face_n = 1
    /\ li = 1
    /\ face_img = None
    /\ renders = <<>>
    /\ live = {}
    /\ out_dir = {}

IdleDir ==
    /\ fwd = None
    /\ dir = None
    /\ face_idx = None
    /\ uv = None

IdleSample ==
    /\ img_np = None
    /\ px = 0
    /\ py = 0
    /\ sampled = None

IdlePano ==
    /\ face_paths = None
    /\ load_n = 1
    /\ face_size = NoSize
    /\ face_imgs = {}
    /\ result_np = None
    /\ saved = FALSE
    /\ ret = "running"

IdleCollect ==
    /\ files = {}
    /\ args = <<>>
    /\ path_n = 1
    /\ seen = {}
    /\ panoramas = <<>>
    /\ warnings = <<>>

IdleMain ==
    /\ tool = "none"
    /\ images = <<>>
    /\ pos = 1
    /\ failed = 0
    /\ log = <<>>
    /\ status = NoStatus

InitLevels ==
    /\ pc = "start"
    /\ IdleCollect
    /\ IdleMain
    /\ IdleDir
    /\ IdleSample
    /\ IdlePano
    /\ width \in 1 .. MaxWidth
    /\ level_sizes = <<>>
    /\ face_n = 1
    /\ li = 1
    /\ face_img = None
    /\ renders = <<>>
    /\ live = {}
    /\ out_dir = {}

InitTiles ==
    /\ pc = "start"
    /\ IdleCollect
    /\ IdleMain
    /\ IdleDir
    /\ IdleSample
    /\ IdlePano
    /\ width \in PipelineWidths
    /\ level_sizes = <<>>
    /\ face_n = 1
    /\ li = 1
    /\ face_img = None
    /\ renders = <<>>
    /\ live = {}
    /\ out_dir = {}

\* level_sizes = compute_level_sizes(W); the empty list returns False
ComputeLevels ==
    /\ pc = "start"
    /\ level_sizes' = compute_level_sizes(width)
    /\ pc' = IF level_sizes' = <<>> THEN "too_small" ELSE "planned"
    /\ UNCHANGED <<width, face_n, li, face_img, renders, live, out_dir, dirVars, sampleVars, panoVars, cliVars>>

\* max_size = level_sizes[-1]; the loop over FACES begins
EnterFaces ==
    /\ pc = "planned"
    /\ pc' = "project"
    /\ face_n' = 1
    /\ UNCHANGED <<width, level_sizes, li, face_img, renders, live, out_dir, dirVars, sampleVars, panoVars, cliVars>>

\* face_img = equirect_to_face(img_np, face, max_size)
ProjectFace ==
    /\ pc = "project"
    /\ face_n <= Len(FACES)
    /\ LET max_size == level_sizes[Len(level_sizes)]
       IN  /\ face_img' = [face |-> FACES[face_n], size |-> max_size,
                           id |-> Len(renders) + 1]
           /\ renders' = Append(renders, <<FACES[face_n], max_size>>)
    /\ live' = live \cup {Len(renders) + 1}
    /\ li' = 1
    /\ pc' = "tiles"
    /\ UNCHANGED <<width, level_sizes, face_n, out_dir, dirVars, sampleVars, panoVars, cliVars>>

\* one iteration of the loop over the levels: save_tiles(face_img, face, li, size)
SaveTiles ==
    /\ pc = "tiles"
    /\ li <= Len(level_sizes)
    /\ out_dir' = out_dir \cup save_tiles(face_img, FACES[face_n], li, level_sizes[li])
    /\ li' = li + 1
    /\ UNCHANGED <<pc, width, level_sizes, face_n, face_img, renders, live, dirVars, sampleVars, panoVars, cliVars>>

\* a loop that goes on to the next face without del face_img
FinishFace_keep ==
    /\ pc = "tiles"
    /\ li > Len(level_sizes)
    /\ face_img' = None
    /\ live' = live
    /\ face_n' = face_n + 1
    /\ pc' = IF face_n = Len(FACES) THEN "done" ELSE "project"
    /\ UNCHANGED <<width, level_sizes, li, renders, out_dir, dirVars, sampleVars, panoVars, cliVars>>

\* the levels of the face are done: keep the thumbnail, del face_img, next face
FinishFace ==
    /\ pc = "tiles"
    /\ li > Len(level_sizes)
    /\ face_img' = None
    /\ live' = live \ {face_img.id}
    /\ face_n' = face_n + 1
    /\ pc' = IF face_n = Len(FACES) THEN "done" ELSE "project"
    /\ UNCHANGED <<width, level_sizes, li, renders, out_dir, dirVars, sampleVars, panoVars, cliVars>>

NextLevels == ComputeLevels

NextTiles ==
    \/ ComputeLevels
    \/ EnterFaces
    \/ ProjectFace
    \/ SaveTiles
    \/ FinishFace

SpecLevels == InitLevels /\ [][NextLevels]_vars

SpecTiles == InitTiles /\ [][NextTiles]_vars

-----------------------------------------------------------------------------
(* faces_to_equirect: face assignment by dominant axis and the UV formulas *)

\* np.abs
Abs(a) == IF a < 0 THEN -a ELSE a

\* a dominance test that gives an exact tie to the later family
x_dom_strict(dx, dy, dz) == (Abs(dx) > Abs(dy)) /\ (Abs(dx) > Abs(dz))

x_dom(dx, dy, dz) == (Abs(dx) >= Abs(dy)) /\ (Abs(dx) >= Abs(dz))
\* a Y family that does not leave out the X family
y_dom_loose(dx, dy, dz) == Abs(dy) >= Abs(dz)

y_dom(dx, dy, dz) == ~x_dom(dx, dy, dz) /\ (Abs(dy) >= Abs(dz))
z_dom(dx, dy, dz) == ~x_dom(dx, dy, dz) /\ ~y_dom(dx, dy, dz)

\* face_idx = zeros(...), then the five masked assignments in the code's order
FaceIndex(dx, dy, dz) ==
    LET i0 == 0
        i1 == IF z_dom(dx, dy, dz) /\ dz < 0 THEN 1 ELSE i0
        i2 == IF x_dom(dx, dy, dz) /\ dx > 0 THEN 2 ELSE i1
        i3 == IF x_dom(dx, dy, dz) /\ dx < 0 THEN 3 ELSE i2
        i4 == IF y_dom(dx, dy, dz) /\ dy > 0 THEN 4 ELSE i3
        i5 == IF y_dom(dx, dy, dz) /\ dy < 0 THEN 5 ELSE i4
    IN  i5

\* the quotient a / b of two components, kept as a fraction with a positive
\* denominator; b = 0 gives the NaN or infinity of the float division
Quot(a, b) ==
    IF b = 0 THEN [nan |-> TRUE]
    ELSE IF b < 0 THEN [num |-> -a, den |-> -b]
    ELSE [num |-> a, den |-> b]

\* uv_u[m], uv_v[m] for the six masks m = (face_idx == fi)
FaceUV(fi, dx, dy, dz) ==
    CASE fi = 0 -> <<Quot(dx, dz), Quot(dy, dz)>>
      [] fi = 1 -> <<Quot(dx, dz), Quot(-dy, dz)>>
      [] fi = 2 -> <<Quot(-dz, dx), Quot(dy, dx)>>
      [] fi = 3 -> <<Quot(-dz, dx), Quot(-dy, dx)>>
      [] fi = 4 -> <<Quot(dx, dy), Quot(-dz, dy)>>
      [] fi = 5 -> <<Quot(-dx, dy), Quot(-dz, dy)>>

\* the directions of output pixels: every vector but the zero vector, which no
\* longitude and latitude give
Directions ==
    { d \in (-MaxCoord .. MaxCoord) \X (-MaxCoord .. MaxCoord) \X (-MaxCoord .. MaxCoord) :
        d # <<0, 0, 0>> }

InitFaces ==
    /\ pc = "direction"
    /\ IdleCollect
    /\ IdleMain
    /\ IdleTiles
    /\ IdleSample
    /\ IdlePano
    /\ fwd = None
    /\ dir \in Directions
    /\ face_idx = None
    /\ uv = None

\* the face assignment of one pixel
AssignFace ==
    /\ pc = "direction"
    /\ face_idx' = FaceIndex(dir[1], dir[2], dir[3])
    /\ pc' = "assigned"
    /\ UNCHANGED <<tileVars, fwd, dir, uv, sampleVars, panoVars, cliVars>>

\* the UV of the pixel, from the formulas of its face
ComputeUV ==
    /\ pc = "assigned"
    /\ uv' = FaceUV(face_idx, dir[1], dir[2], dir[3])
    /\ pc' = "uv"
    /\ UNCHANGED <<tileVars, fwd, dir, face_idx, sampleVars, panoVars, cliVars>>

NextFaces == AssignFace \/ ComputeUV

SpecFaces == InitFaces /\ [][NextFaces]_vars

\* a table whose back face is not mirrored
FaceDirection_backUnflipped(face, u, v, one) ==
    CASE face = "f" -> <<u, v, one>>
      [] face = "b" -> <<u, v, -one>>
      [] face = "r" -> <<one, v, -u>>
      [] face = "l" -> <<-one, v, u>>
      [] face = "u" -> <<u, one, -v>>
      [] face = "d" -> <<u, -one, v>>

\* equirect_to_face: the direction of the point (u, v) of a face, in units
\* in which 1.0 is `one'; the normalisation that follows scales it by 1/norm
FaceDirection(face, u, v, one) ==
    CASE face = "f" -> <<u, v, one>>
      [] face = "b" -> <<-u, v, -one>>
      [] face = "r" -> <<one, v, -u>>
      [] face = "l" -> <<-one, v, u>>
      [] face = "u" -> <<u, one, -v>>
      [] face = "d" -> <<u, -one, v>>

\* the points (un/den, vn/den) strictly inside a face, and the positive factor
\* the direction is scaled by
FacePoints ==
    { q \in [face : { FACES[i] : i \in 1 .. Len(FACES) },
             un : -GridDen .. GridDen, vn : -GridDen .. GridDen,
             den : 1 .. GridDen, scale : 1 .. MaxScale] :
        Abs(q.un) < q.den /\ Abs(q.vn) < q.den }

InitRound ==
    /\ pc = "forward"
    /\ IdleCollect
    /\ IdleMain
    /\ IdleTiles
    /\ IdleSample
    /\ IdlePano
    /\ fwd \in FacePoints
    /\ dir = None
    /\ face_idx = None
    /\ uv = None

\* the forward projection computes the direction of the face point
Forward ==
    /\ pc = "forward"
    /\ dir' = FaceDirection(fwd.face, fwd.scale * fwd.un, fwd.scale * fwd.vn,
                            fwd.scale * fwd.den)
    /\ pc' = "direction"
    /\ UNCHANGED <<tileVars, fwd, face_idx, uv, sampleVars, panoVars, cliVars>>

NextRound == Forward \/ AssignFace \/ ComputeUV

SpecRound == InitRound /\ [][NextRound]_vars

-----------------------------------------------------------------------------
(* Bilinear sampling: equirect_to_face (tilecreator.py and tocubemap.py, the *)
(* same code) and faces_to_equirect (tosphere.py)                            *)

RECURSIVE Pow2(_)
Pow2(n) == IF n = 0 THEN 1 ELSE 2 * Pow2(n - 1)

\* number of significant bits of a natural number
RECURSIVE BitLen(_)
BitLen(n) == IF n = 0 THEN 0 ELSE 1 + BitLen(n \div 2)

\* The value of a float32 operation whose exact result is n (in some fixed
\* unit 2^-k): n rounded to 24 significant bits, ties to even.
F32(n) ==
    IF BitLen(n) <= 24 THEN n
    ELSE LET s == BitLen(n) - 24
             q == n \div Pow2(s)
             r == n % Pow2(s)
             half == Pow2(s - 1)
             up == r > half \/ (r = half /\ q % 2 = 1)
         IN  (IF up THEN q + 1 ELSE q) * Pow2(s)

One == Pow2(FracBits)

\* np.floor(px).astype(np.int32), and px - x0 (exact in float32)
Floor(p) == p \div One
Frac(p) == p % One

\* np.clip
Clip(x, lo, hi) == IF x < lo THEN lo ELSE IF x > hi THEN hi ELSE x

\* a sampler that clamps the column where the code wraps it
WrapX_clip(x, W) == Clip(x, 0, W - 1)

\* x % W
WrapX(x, W) == x % W

\* c00*iwx*iwy + c10*wx*iwy + c01*iwx*wy + c11*wx*wy in float32, evaluated
\* left to right; wx and wy are in units of 2^-FracBits, the result in units
\* of 2^-(2*FracBits).  1 - wx is exact.
Blend(c00, c10, c01, c11, wx, wy) ==
    LET iwx == One - wx
        iwy == One - wy
        t00 == F32(F32(c00 * iwx) * iwy)
        t10 == F32(F32(c10 * wx) * iwy)
        t01 == F32(F32(c01 * iwx) * wy)
        t11 == F32(F32(c11 * wx) * wy)
    IN  F32(F32(F32(t00 + t10) + t01) + t11)

\* result.astype(np.uint8): the fraction is cut off
AsUint8(v) == v \div (One * One)

BufW(img) == Cardinality(DOMAIN img[0])
BufH(img) == Cardinality(DOMAIN img)

\* the bilinear interpolation of equirect_to_face at (p, q), wrap x, clamp y
ForwardSample(img, p, q) ==
    LET W == BufW(img)
        H == BufH(img)
        x0 == Floor(p)
        y0 == Floor(q)
        wx == Frac(p)
        wy == Frac(q)
        x1 == WrapX(x0 + 1, W)
        y1 == Clip(y0 + 1, 0, H - 1)
        x0w == WrapX(x0, W)
        y0c == Clip(y0, 0, H - 1)
    IN  [kind |-> "forward", x0 |-> x0w, x1 |-> x1, y0 |-> y0c, y1 |-> y1,
         wx |-> wx, wy |-> wy,
         value |-> AsUint8(Blend(img[y0c][x0w], img[y0c][x1],
                                 img[y1][x0w], img[y1][x1], wx, wy))]

\* a face sampler that wraps the columns as the forward sampler does
InverseSample_wrap(img, p, q) == [ForwardSample(img, p, q) EXCEPT !.kind = "inverse"]

\* the sampling of one face in faces_to_equirect at (p, q), all indices clamped
InverseSample(img, p, q) ==
    LET side == BufH(img)
        x0 == Floor(p)
        y0 == Floor(q)
        wx == Frac(p)
        wy == Frac(q)
        x1 == Clip(x0 + 1, 0, side - 1)
        y1 == Clip(y0 + 1, 0, side - 1)
        x0c == Clip(x0, 0, side - 1)
        y0c == Clip(y0, 0, side - 1)
    IN  [kind |-> "inverse", x0 |-> x0c, x1 |-> x1, y0 |-> y0c, y1 |-> y1,
         wx |-> wx, wy |-> wy,
         value |-> AsUint8(Blend(img[y0c][x0c], img[y0c][x1],
                                 img[y1][x0c], img[y1][x1], wx, wy))]

\* the fractional parts the coordinates take
WeightNums == { k \in 0 .. One - 1 : k % WeightStride = 0 }

\* buffers of one channel: uniform ones, and one whose pixels all differ
Buffers(W, H) ==
    { [y \in 0 .. H - 1 |-> [x \in 0 .. W - 1 |-> c]] : c \in {0, 1, 128, 255} }
    \cup { [y \in 0 .. H - 1 |-> [x \in 0 .. W - 1 |-> (40 * x + 100 * y + 7) % 256]] }

\* Columns from 0 up to W, the coordinate one past the last column; the
\* projections themselves compute columns in [0, W - 1] and rows in [0, H - 1].
PxValues(W) == { i * One + k : i \in 0 .. W - 1, k \in WeightNums } \cup { W * One }
PyValues(H) == { j * One + k : j \in 0 .. H - 1, k \in WeightNums }

InitSample ==
    /\ pc = "sample"
    /\ IdleCollect
    /\ IdleMain
    /\ IdleTiles
    /\ IdleDir
    /\ IdlePano
    /\ \E W \in 1 .. MaxBufW, H \in 1 .. MaxBufH :
          /\ img_np \in Buffers(W, H)
          /\ px \in PxValues(W)
          /\ py \in PyValues(H)
    /\ sampled = None

\* equirect_to_face samples the equirectangular source
SampleForward ==
    /\ pc = "sample"
    /\ sampled' = ForwardSample(img_np, px, py)
    /\ pc' = "sampled"
    /\ UNCHANGED <<tileVars, dirVars, img_np, px, py, panoVars, cliVars>>

\* faces_to_equirect samples a cube face, which is square
SampleInverse ==
    /\ pc = "sample"
    /\ BufW(img_np) = BufH(img_np)
    /\ sampled' = InverseSample(img_np, px, py)
    /\ pc' = "sampled"
    /\ UNCHANGED <<tileVars, dirVars, img_np, px, py, panoVars, cliVars>>

NextSample == SampleForward \/ SampleInverse

SpecSample == InitSample /\ [][NextSample]_vars

-----------------------------------------------------------------------------
(* process_panorama of tosphere.py *)

\* round(face_size * math.pi); the product is never a tie, and 355/113 gives
\* the floating-point value for every face_size below 16000
OutWidth(fs) == (2 * fs * PiNum + PiDen) \div (2 * PiDen)

\* round(out_w / 2): Python rounds a tie to the even neighbour
OutHeight(out_w) ==
    IF out_w % 2 = 0 THEN out_w \div 2
    ELSE IF ((out_w - 1) \div 2) % 2 = 0 THEN (out_w - 1) \div 2
    ELSE (out_w + 1) \div 2

\* a validation that forgets the squareness test
FaceRejected_sizeOnly(w, h, expected) == expected # NoSize /\ w # expected

\* the two tests of the loading loop: w != h, then w != face_size once it is set
FaceRejected(w, h, expected) ==
    \/ w # h
    \/ (expected # NoSize /\ w # expected)

FaceKeys == { FACES[i] : i \in 1 .. Len(FACES) }

InitPano ==
    /\ pc = "load"
    /\ IdleCollect
    /\ IdleMain
    /\ IdleTiles
    /\ IdleDir
    /\ IdleSample
    /\ face_paths \in [FaceKeys -> (1 .. MaxFaceSide) \X (1 .. MaxFaceSide)]
    /\ load_n = 1
    /\ face_size = NoSize
    /\ face_imgs = {}
    /\ result_np = None
    /\ saved = FALSE
    /\ ret = "running"

\* one iteration of the loop over FACES: open the image, test it, keep it
LoadFace ==
    /\ pc = "load"
    /\ load_n <= Len(FACES)
    /\ LET face == FACES[load_n]
           w == face_paths[face][1]
           h == face_paths[face][2]
       IN  IF FaceRejected(w, h, face_size)
           THEN /\ ret' = "False"
                /\ pc' = "returned"
                /\ UNCHANGED <<load_n, face_size, face_imgs>>
           ELSE /\ face_size' = IF face_size = NoSize THEN w ELSE face_size
                /\ face_imgs' = face_imgs \cup {face}
                /\ load_n' = load_n + 1
                /\ UNCHANGED <<pc, ret>>
    /\ UNCHANGED <<cliVars, tileVars, dirVars, sampleVars, face_paths, result_np, saved>>

\* result_np = faces_to_equirect(face_imgs, out_w, out_h)
Project ==
    /\ pc = "load"
    /\ load_n > Len(FACES)
    /\ result_np' = [out_w |-> OutWidth(face_size),
                     out_h |-> OutHeight(OutWidth(face_size))]
    /\ pc' = "projected"
    /\ UNCHANGED <<cliVars, tileVars, dirVars, sampleVars, face_paths, load_n, face_size,
                   face_imgs, saved, ret>>

\* Image.fromarray(result_np).save(out_path); return True
SaveOutput ==
    /\ pc = "projected"
    /\ saved' = TRUE
    /\ ret' = "True"
    /\ pc' = "returned"
    /\ UNCHANGED <<cliVars, tileVars, dirVars, sampleVars, face_paths, load_n, face_size,
                   face_imgs, result_np>>

NextPano == LoadFace \/ Project \/ SaveOutput

SpecPano == InitPano /\ [][NextPano]_vars

-----------------------------------------------------------------------------
(* Input discovery of tosphere.py: parse_face_path, find_all_faces,         *)
(* collect_panoramas.  A file name is a sequence of characters.             *)

SUFFIX_TO_FACE ==
    << [suffix |-> <<"_", "f">>, face |-> "f"],
       [suffix |-> <<"_", "b">>, face |-> "b"],
       [suffix |-> <<"_", "r">>, face |-> "r"],
       [suffix |-> <<"_", "l">>, face |-> "l"],
       [suffix |-> <<"_", "u">>, face |-> "u"],
       [suffix |-> <<"_", "d">>, face |-> "d"] >>

EXTENSIONS == <<".tif", ".tiff", ".TIF", ".TIFF", ".jpg", ".jpeg", ".JPG", ".JPEG">>

\* stem.endswith(suffix)
endswith(stem, suffix) ==
    /\ Len(stem) >= Len(suffix)
    /\ SubSeq(stem, Len(stem) - Len(suffix) + 1, Len(stem)) = suffix

\* the first index of a non-empty set of indices: the loop returns or breaks there
FirstOf(hits) == CHOOSE i \in hits : \A o \in hits : i <= o

\* (directory, prefix, face) of a path, or None without a recognised suffix
parse_face_path(path) ==
    LET hits == { i \in 1 .. Len(SUFFIX_TO_FACE) :
                    endswith(path.stem, SUFFIX_TO_FACE[i].suffix) }
    IN  IF hits = {} THEN None
        ELSE LET entry == SUFFIX_TO_FACE[FirstOf(hits)]
             IN  [directory |-> path.dir,
                  prefix |-> SubSeq(path.stem, 1, Len(path.stem) - Len(entry.suffix)),
                  face |-> entry.face]

\* os.path.isfile(os.path.join(directory, name + ext))
isfile(fsys, directory, name, ext) ==
    [dir |-> directory, name |-> name, ext |-> ext] \in fsys

\* the extensions, as indices into EXTENSIONS, under which the file exists
ExtHits(fsys, directory, name) ==
    { e \in 1 .. Len(EXTENSIONS) : isfile(fsys, directory, name, EXTENSIONS[e]) }

\* a loop over the extensions without the break: the last match wins
ChosenExt_last(hits) == CHOOSE e \in hits : \A o \in hits : o <= e

\* found[face] = candidate; break
ChosenExt(hits) == FirstOf(hits)

\* the suffix SUFFIX_TO_FACE has for a face key
SuffixOf(face) ==
    SUFFIX_TO_FACE[CHOOSE i \in 1 .. Len(SUFFIX_TO_FACE) : SUFFIX_TO_FACE[i].face = face].suffix

\* face key -> the file found for it, for the faces that have one
find_all_faces(fsys, directory, prefix) ==
    [ face \in { f \in FaceKeys : ExtHits(fsys, directory, prefix \o SuffixOf(f)) # {} } |->
        [dir |-> directory, name |-> prefix \o SuffixOf(face),
         ext |-> EXTENSIONS[ChosenExt(ExtHits(fsys, directory, prefix \o SuffixOf(face)))]] ]

\* The directory the panoramas are in, and an empty one
Dir1 == "d1"
Dir2 == "d2"

\* Two prefixes, the second ending in what reads as a face suffix
PrefixA == <<"a">>
PrefixB == <<"a", "_", "f">>

FaceFile(directory, prefix, face, ext) ==
    [dir |-> directory, name |-> prefix \o <<"_", face>>, ext |-> ext]

\* both panoramas complete, every face a .TIF file
BaseFiles ==
    { FaceFile(Dir1, p, f, ".TIF") : p \in {PrefixA, PrefixB}, f \in FaceKeys }

\* further files of faces that BaseFiles has under another extension
ExtraFiles ==
    { FaceFile(Dir1, PrefixA, "f", ".tif"),
      FaceFile(Dir1, PrefixB, "b", ".JPEG") }

\* the directories tosphere is run on: at most MaxMissing files of BaseFiles
\* are missing, any of ExtraFiles are there
FileSystems ==
    { (BaseFiles \ gone) \cup extra :
        gone \in { g \in SUBSET BaseFiles : Cardinality(g) <= MaxMissing },
        extra \in SUBSET ExtraFiles }

ArgPaths ==
    { [dir |-> Dir1, stem |-> PrefixA \o <<"_", "f">>, ext |-> ".TIF"],
      [dir |-> Dir1, stem |-> PrefixA \o <<"_", "u">>, ext |-> ".jpg"],
      [dir |-> Dir1, stem |-> PrefixB \o <<"_", "b">>, ext |-> ".TIF"],
      [dir |-> Dir2, stem |-> PrefixA \o <<"_", "d">>, ext |-> ".TIF"],
      [dir |-> Dir1, stem |-> PrefixA, ext |-> ".TIF"] }

\* nargs='+': at least one path
ArgLists == UNION { [1 .. k -> ArgPaths] : k \in 1 .. MaxArgs }

InitCollect ==
    /\ pc = "collect"
    /\ IdleTiles
    /\ IdleDir
    /\ IdleSample
    /\ IdlePano
    /\ IdleMain
    /\ files \in FileSystems
    /\ args \in ArgLists
    /\ path_n = 1
    /\ seen = {}
    /\ panoramas = <<>>
    /\ warnings = <<>>

\* one iteration of the loop of collect_panoramas over the paths
CollectPath ==
    /\ pc = "collect"
    /\ path_n <= Len(args)
    /\ \E parsed \in {parse_face_path(args[path_n])} :
          IF parsed = None
          THEN /\ warnings' = Append(warnings, [kind |-> "no_suffix", path |-> args[path_n]])
               /\ UNCHANGED <<seen, panoramas>>
          ELSE IF <<parsed.directory, parsed.prefix>> \in seen
          THEN UNCHANGED <<seen, panoramas, warnings>>
          ELSE \E found \in {find_all_faces(files, parsed.directory, parsed.prefix)} :
                  \E missing \in {SelectSeq(FACES, LAMBDA f : f \notin DOMAIN found)} :
                     /\ seen' = seen \cup {<<parsed.directory, parsed.prefix>>}
                     /\ IF missing # <<>>
                        THEN /\ warnings' = Append(warnings,
                                    [kind |-> "missing",
                                     key |-> <<parsed.directory, parsed.prefix>>,
                                     missing |-> missing])
                             /\ UNCHANGED panoramas
                        ELSE /\ panoramas' = Append(panoramas,
                                    [directory |-> parsed.directory,
                                     prefix |-> parsed.prefix,
                                     face_paths |-> found])
                             /\ UNCHANGED warnings
    /\ path_n' = path_n + 1
    /\ UNCHANGED <<pc, tileVars, dirVars, sampleVars, panoVars, files, args, mainVars>>

\* return panoramas
ReturnPanoramas ==
    /\ pc = "collect"
    /\ path_n > Len(args)
    /\ pc' = "collected"
    /\ UNCHANGED <<tileVars, dirVars, sampleVars, panoVars, cliVars>>

NextCollect == CollectPath \/ ReturnPanoramas

SpecCollect == InitCollect /\ [][NextCollect]_vars

-----------------------------------------------------------------------------
(* main of tilecreator.py, tocubemap.py and tosphere.py *)

ImageTools == {"tilecreator", "tocubemap"}

\* how the processing of one input can end: process_image of tocubemap.py
\* has no return False
Results(t) ==
    IF t = "tocubemap" THEN {"True", "raise"} ELSE {"True", "False", "raise"}

\* a sys.exit that passes the counter on
ExitStatus_count(count) == count

\* sys.exit(1 if failed else 0)
ExitStatus(count) == IF count # 0 THEN 1 ELSE 0

\* args.images, nargs='+': for each path whether it is a file
ImageLists == UNION { [1 .. k -> BOOLEAN] : k \in 1 .. MaxImages }

\* the directories main of tosphere.py is run on: each panorama whole or
\* without its front face
MainFileSystems ==
    { BaseFiles \ gone :
        gone \in SUBSET { FaceFile(Dir1, p, "f", ".TIF") : p \in {PrefixA, PrefixB} } }

\* the list the loop of main goes over
Inputs == IF tool = "tosphere" THEN panoramas ELSE images

InitMain ==
    /\ IdleTiles
    /\ IdleDir
    /\ IdleSample
    /\ IdlePano
    /\ \/ /\ tool \in ImageTools
          /\ pc = "loop"
          /\ images \in ImageLists
          /\ IdleCollect
       \/ /\ tool = "tosphere"
          /\ pc = "collect"
          /\ images = <<>>
          /\ files \in MainFileSystems
          /\ args \in ArgLists
          /\ path_n = 1
          /\ seen = {}
          /\ panoramas = <<>>
          /\ warnings = <<>>
    /\ pos = 1
    /\ failed = 0
    /\ log = <<>>
    /\ status = NoStatus

\* tosphere, after panoramas = collect_panoramas(args.faces):
\* if not panoramas: sys.exit(1)
CheckPanoramas ==
    /\ pc = "collected"
    /\ tool = "tosphere"
    /\ IF panoramas = <<>>
       THEN /\ status' = 1
            /\ pc' = "exited"
       ELSE /\ status' = status
            /\ pc' = "loop"
    /\ UNCHANGED <<tileVars, dirVars, sampleVars, panoVars, collectVars,
                   tool, images, pos, failed, log>>

\* if not os.path.isfile(path): failed += 1; continue
MissingImage ==
    /\ pc = "loop"
    /\ tool \in ImageTools
    /\ pos <= Len(images)
    /\ ~images[pos]
    /\ failed' = failed + 1
    /\ log' = Append(log, [input |-> pos, result |-> "missing"])
    /\ pos' = pos + 1
    /\ UNCHANGED <<pc, tileVars, dirVars, sampleVars, panoVars, collectVars,
                   tool, images, status>>

\* a loop without the try: the exception ends the program with status 1
ProcessImage_abort ==
    /\ pc = "loop"
    /\ tool \in ImageTools
    /\ pos <= Len(images)
    /\ images[pos]
    /\ \E r \in Results(tool) :
          /\ failed' = IF r = "True" THEN failed ELSE failed + 1
          /\ log' = Append(log, [input |-> pos, result |-> r])
          /\ IF r = "raise"
             THEN /\ status' = 1
                  /\ pc' = "exited"
             ELSE /\ status' = status
                  /\ pc' = pc
    /\ pos' = pos + 1
    /\ UNCHANGED <<tileVars, dirVars, sampleVars, panoVars, collectVars,
                   tool, images>>

\* try: if not process_image(path): failed += 1; except Exception: failed += 1
ProcessImage ==
    /\ pc = "loop"
    /\ tool \in ImageTools
    /\ pos <= Len(images)
    /\ images[pos]
    /\ \E r \in Results(tool) :
          /\ failed' = IF r = "True" THEN failed ELSE failed + 1
          /\ log' = Append(log, [input |-> pos, result |-> r])
    /\ pos' = pos + 1
    /\ UNCHANGED <<pc, tileVars, dirVars, sampleVars, panoVars, collectVars,
                   tool, images, status>>

\* try: if not process_panorama(...): failed += 1; except Exception: failed += 1
ProcessPanorama ==
    /\ pc = "loop"
    /\ tool = "tosphere"
    /\ pos <= Len(panoramas)
    /\ \E r \in Results(tool) :
          /\ failed' = IF r = "True" THEN failed ELSE failed + 1
          /\ log' = Append(log, [input |-> pos, result |-> r])
    /\ pos' = pos + 1
    /\ UNCHANGED <<pc, tileVars, dirVars, sampleVars, panoVars, collectVars,
                   tool, images, status>>

\* the loop is over: sys.exit(1 if failed else 0)
Exit ==
    /\ pc = "loop"
    /\ pos > Len(Inputs)
    /\ status' = ExitStatus(failed)
    /\ pc' = "exited"
    /\ UNCHANGED <<tileVars, dirVars, sampleVars, panoVars, collectVars,
                   tool, images, pos, failed, log>>

NextMain ==
    \/ CollectPath
    \/ ReturnPanoramas
    \/ CheckPanoramas
    \/ MissingImage
    \/ ProcessImage
    \/ ProcessPanorama
    \/ Exit

SpecMain == InitMain /\ [][NextMain]_vars

\* the interpreter goes on to the next statement as long as there is one
FairMain == SpecMain /\ WF_vars(NextMain)

-----------------------------------------------------------------------------
(* Properties of the level planner (SpecLevels) *)

Planned == pc \in {"planned", "too_small"}

\* C1: for every source width, compute_level_sizes returns a strictly
\* ascending list whose elements are all positive multiples of 128 and all
\* greater than the tile size 512.
C1_LevelsAscendingMultiples ==
    Planned =>
        /\ \A i \in 1 .. Len(level_sizes) - 1 : level_sizes[i] < level_sizes[i + 1]
        /\ \A i \in 1 .. Len(level_sizes) :
              /\ level_sizes[i] > 0
              /\ level_sizes[i] % 128 = 0
              /\ level_sizes[i] > 512

C1_Witness == pc = "planned" /\ Len(level_sizes) >= 4

\* C2 as stated: every level size returned by compute_level_sizes is evenly
\* divisible by the tile size 512, so n = level_size // 512 is level_size / 512.
C2_LevelsDivideByTile ==
    Planned =>
        \A i \in 1 .. Len(level_sizes) :
            /\ level_sizes[i] % 512 = 0
            /\ TilesPerAxis(level_sizes[i]) * 512 = level_sizes[i]

\* C2 amended: every level size is evenly divisible by 128, not necessarily
\* by 512; the tile count n = level_size // 512 is at least 1 and leaves a
\* remainder level_size - 512 * n that is one of 0, 128, 256, 384.
C2_LevelsDivideByQuantum ==
    Planned =>
        \A i \in 1 .. Len(level_sizes) :
            LET n == TilesPerAxis(level_sizes[i])
            IN  /\ level_sizes[i] % 128 = 0
                /\ n >= 1
                /\ level_sizes[i] - 512 * n \in {0, 128, 256, 384}

C2_Witness ==
    /\ pc = "planned"
    /\ \E i \in 1 .. Len(level_sizes) : level_sizes[i] % 512 # 0
    /\ \E i \in 1 .. Len(level_sizes) : level_sizes[i] % 512 = 0

\* C4 as stated: compute_level_sizes returns the empty list exactly when the
\* source width is below 2011; from 2011 on the list is non-empty.
C4_EmptyIffBelow2011 ==
    Planned => ((level_sizes = <<>>) <=> (width < TooSmallWidth))

\* C5: for every width with a non-empty result the largest element is
\* round(W / pi / 128) * 128, each next smaller element is
\* floor(previous / 256) * 128, and the smallest element L has
\* floor(L / 256) * 128 <= 512.
C5_HalvingSequenceMaximal ==
    pc = "planned" =>
        LET n == Len(level_sizes)
            top == level_sizes[n]
            \* top is the multiple of 128 nearest to W / pi
            gap == top * PiNum - width * PiDen
        IN  /\ top % 128 = 0
            /\ 2 * gap <= 128 * PiNum
            /\ 2 * gap >= -(128 * PiNum)
            /\ \A i \in 1 .. n - 1 :
                  level_sizes[i] = (level_sizes[i + 1] \div 256) * 128
            /\ (level_sizes[1] \div 256) * 128 <= 512

C5_Witness ==
    /\ pc = "planned"
    /\ Len(level_sizes) >= 3
    /\ \E i \in 1 .. Len(level_sizes) - 1 : 2 * level_sizes[i] # level_sizes[i + 1]

\* C6: for a source width of 20906 the planner returns exactly
\* [768, 1664, 3328, 6656].
C6_Example20906 ==
    (Planned /\ width = ExampleWidth) => level_sizes = <<768, 1664, 3328, 6656>>

C6_Witness == pc = "planned" /\ width = ExampleWidth

-----------------------------------------------------------------------------
(* Properties of the tile writer (SpecTiles) *)

\* the files of one face at one level
TilesOf(face, level) == { t \in out_dir : t.face = face /\ t.level = level }

PixelIn(x, y, box) ==
    /\ box.left <= x /\ x < box.right
    /\ box.upper <= y /\ y < box.lower

\* C3 as stated: for every level size of the planner, the tiles save_tiles
\* writes for one face at that level are 512 x 512 regions that cover every
\* pixel of the level_size x level_size resized render exactly once, and
\* their number is (level_size / 512) squared.
C3_TilesPartitionRender ==
    \A f \in 1 .. Len(FACES) : \A l \in 1 .. Len(level_sizes) :
        LET tiles == TilesOf(FACES[f], l)
            size == level_sizes[l]
        IN  tiles # {} =>
              /\ \A t \in tiles :
                    /\ t.box.right - t.box.left = 512
                    /\ t.box.lower - t.box.upper = 512
              /\ Cardinality(tiles) * 512 * 512 = size * size
              /\ \A x \in 0 .. size - 1 : \A y \in 0 .. size - 1 :
                    Cardinality({ t \in tiles : PixelIn(x, y, t.box) }) = 1

-----------------------------------------------------------------------------
(* Properties of the inverse face selection (SpecFaces) *)

\* C7: face selection follows the priority X, then Y, then Z: with
\* |dx| >= |dy| and |dx| >= |dz| the face is Right (dx > 0) or Left (dx < 0);
\* otherwise with |dy| >= |dz| it is Up (dy > 0) or Down (dy < 0); otherwise
\* Front (dz > 0) or Back (dz < 0).  (0,0,1) maps to Front with u = v = 0 and
\* (1,0,0) to Right with u = v = 0.
C7_FacePriorityXYZ ==
    LET dx == dir[1]
        dy == dir[2]
        dz == dir[3]
        ax == IF dx < 0 THEN -dx ELSE dx
        ay == IF dy < 0 THEN -dy ELSE dy
        az == IF dz < 0 THEN -dz ELSE dz
        xfam == ax >= ay /\ ax >= az
        yfam == ~xfam /\ ay >= az
        zfam == ~xfam /\ ~yfam
    IN  /\ pc \in {"assigned", "uv"} =>
              /\ (xfam /\ dx > 0) => face_idx = 2
              /\ (xfam /\ dx < 0) => face_idx = 3
              /\ (yfam /\ dy > 0) => face_idx = 4
              /\ (yfam /\ dy < 0) => face_idx = 5
              /\ (zfam /\ dz > 0) => face_idx = 0
              /\ (zfam /\ dz < 0) => face_idx = 1
        /\ (pc = "uv" /\ dir = <<0, 0, 1>>) =>
              /\ face_idx = 0
              /\ uv[1].num = 0 /\ uv[2].num = 0
        /\ (pc = "uv" /\ dir = <<1, 0, 0>>) =>
              /\ face_idx = 2
              /\ uv[1].num = 0 /\ uv[2].num = 0

\* an exact 45 degree tie between X and Y, resolved to the X family
C7_Witness ==
    /\ pc = "uv"
    /\ Abs(dir[1]) = Abs(dir[2])
    /\ Abs(dir[1]) > Abs(dir[3])
    /\ face_idx \in {2, 3}

-----------------------------------------------------------------------------
(* Properties of the samplers (SpecSample) *)

Uniform(img) == \A y \in DOMAIN img : \A x \in DOMAIN img[y] : img[y][x] = img[0][0]

\* C8 as stated: a buffer whose pixels are all of one colour c is sampled to
\* exactly c, by equirect_to_face and by faces_to_equirect, at every
\* coordinate the projections compute.
C8_UniformColourPreserved ==
    ( /\ pc = "sampled"
      /\ Uniform(img_np)
      /\ px <= (BufW(img_np) - 1) * One
      /\ py <= (BufH(img_np) - 1) * One )
    => sampled.value = img_np[0][0]

\* C9: for every source buffer of width W and every row coordinate, the
\* forward sampler at column coordinate exactly W takes the neighbour columns
\* and weights, and returns the colour, of the sample at column coordinate 0.
C9_WrapAtWidth ==
    ( /\ pc = "sampled"
      /\ sampled.kind = "forward"
      /\ px = BufW(img_np) * One )
    => LET at0 == ForwardSample(img_np, 0, py)
       IN  /\ sampled.x0 = 0
           /\ sampled.x1 = 1 % BufW(img_np)
           /\ sampled.wx = 0
           /\ sampled.x0 = at0.x0
           /\ sampled.x1 = at0.x1
           /\ sampled.wx = at0.wx
           /\ sampled.wy = at0.wy
           /\ sampled.value = at0.value
           /\ sampled.value = img_np[sampled.y0][0] \/ sampled.wy # 0

C9_Witness ==
    /\ pc = "sampled"
    /\ sampled.kind = "forward"
    /\ BufW(img_np) >= 2
    /\ px = BufW(img_np) * One
    /\ ~Uniform(img_np)
    /\ sampled.wy # 0

-----------------------------------------------------------------------------
(* Properties of process_panorama (SpecPano) *)

\* every face file is square and has the side of the first face
AllSquareSameSide ==
    \A k \in FaceKeys :
        /\ face_paths[k][1] = face_paths[k][2]
        /\ face_paths[k][1] = face_paths[FACES[1]][1]

\* C10: process_panorama calls faces_to_equirect and writes the output only
\* if all six faces are square and share one side length; if any face is
\* non-square or differs in size from the first, it returns failure without
\* calling the projection and without writing any output.
C10_ValidationAllOrNothing ==
    /\ (result_np # None \/ saved) => AllSquareSameSide
    /\ ~AllSquareSameSide =>
          /\ pc \in {"load", "returned"}
          /\ load_n <= Len(FACES)
          /\ (pc = "returned" => ret = "False")
    /\ (pc = "returned" /\ AllSquareSameSide) =>
          (ret = "True" /\ saved /\ result_np # None /\ face_imgs = FaceKeys)
    /\ (pc = "load" /\ load_n > Len(FACES)) => AllSquareSameSide

\* a set rejected at its fifth face, after four faces were loaded
C10_Witness ==
    /\ pc = "returned"
    /\ ret = "False"
    /\ Cardinality(face_imgs) = 4
    /\ result_np = None
    /\ ~saved

-----------------------------------------------------------------------------
(* Properties of the input discovery (SpecCollect) *)

\* the extensions, as indices into EXTENSIONS, under which a face file exists
ExistingExts(directory, prefix, face) ==
    { e \in 1 .. Len(EXTENSIONS) :
        FaceFile(directory, prefix, face, EXTENSIONS[e]) \in files }

MissingFaces(directory, prefix) ==
    { f \in FaceKeys : ExistingExts(directory, prefix, f) = {} }

\* the positions in the result of the panorama of a directory and prefix
EntriesOf(directory, prefix) ==
    { i \in 1 .. Len(panoramas) :
        panoramas[i].directory = directory /\ panoramas[i].prefix = prefix }

\* C11: every entry collect_panoramas returns maps all six face keys to an
\* existing file of its directory and prefix, under the first extension of
\* the fixed order that exists; no directory and prefix is returned twice,
\* however many of its faces were passed; and a panorama of a passed path with
\* a face missing is not returned but warned about with its missing faces.
C11_CollectedPanoramasComplete ==
    pc = "collected" =>
        /\ \A i \in 1 .. Len(panoramas) :
              LET p == panoramas[i]
              IN  /\ DOMAIN p.face_paths = FaceKeys
                  /\ \A f \in FaceKeys :
                        LET file == p.face_paths[f]
                            exts == ExistingExts(p.directory, p.prefix, f)
                        IN  /\ file \in files
                            /\ file.dir = p.directory
                            /\ file.name = p.prefix \o <<"_", f>>
                            /\ \E e \in exts :
                                  /\ EXTENSIONS[e] = file.ext
                                  /\ \A o \in exts : e <= o
                  /\ EntriesOf(p.directory, p.prefix) = {i}
        /\ \A k \in 1 .. Len(args) :
              LET parsed == parse_face_path(args[k])
              IN  parsed # None =>
                    LET gone == MissingFaces(parsed.directory, parsed.prefix)
                    IN  IF gone = {}
                        THEN EntriesOf(parsed.directory, parsed.prefix) # {}
                        ELSE /\ EntriesOf(parsed.directory, parsed.prefix) = {}
                             /\ \E w \in 1 .. Len(warnings) :
                                   /\ warnings[w].kind = "missing"
                                   /\ warnings[w].key = <<parsed.directory, parsed.prefix>>
                                   /\ { warnings[w].missing[m] :
                                          m \in 1 .. Len(warnings[w].missing) } = gone

\* two faces of one panorama were passed, one of them exists under two
\* extensions, and the panorama is returned once
C11_Witness ==
    /\ pc = "collected"
    /\ Len(args) = 2
    /\ args[1] # args[2]
    /\ parse_face_path(args[1]) # None
    /\ parse_face_path(args[2]) # None
    /\ parse_face_path(args[1]).prefix = parse_face_path(args[2]).prefix
    /\ parse_face_path(args[1]).directory = parse_face_path(args[2]).directory
    /\ Len(panoramas) = 1
    /\ \E f \in FaceKeys :
          Cardinality(ExistingExts(panoramas[1].directory, panoramas[1].prefix, f)) >= 2

-----------------------------------------------------------------------------
(* Properties of the main loops (SpecMain, FairMain) *)

\* the inputs the loop has dealt with that did not end well
Failures == { i \in 1 .. Len(log) : log[i].result # "True" }

\* C12 as stated: in each tool the exit status is 1 exactly when at least one
\* input failed or was skipped (missing file, failure returned, exception,
\* or a path collect_panoramas skipped), and 0 otherwise.
C12_ExitFailureIffAnyInputSkipped ==
    pc = "exited" =>
        /\ status \in {0, 1}
        /\ status = 1 <=> (Failures # {} \/ warnings # <<>>)

\* C12 amended: the exit status is 1 exactly when the main loop counted a
\* failure (missing file, failure returned, exception) or, in tosphere, when
\* collect_panoramas returned no panorama at all; a path or panorama that
\* collect_panoramas skips with a warning does not by itself make it 1.  With
\* status 0 the loop has dealt with every input and each ended well.
C12_ExitFailureIffCounted ==
    pc = "exited" =>
        /\ status \in {0, 1}
        /\ status = 1 <=> (Failures # {} \/ (tool = "tosphere" /\ panoramas = <<>>))
        /\ status = 0 =>
              /\ Len(log) = Len(Inputs)
              /\ \A i \in 1 .. Len(log) : log[i].result = "True"

\* tosphere ends with status 0 although a panorama was skipped as incomplete
C12_Witness ==
    /\ pc = "exited"
    /\ tool = "tosphere"
    /\ status = 0
    /\ \E w \in 1 .. Len(warnings) : warnings[w].kind = "missing"

\* the first path of the command line that names the panorama of an entry
FirstArgOf(i) ==
    FirstOf({ k \in 1 .. Len(args) :
                LET parsed == parse_face_path(args[k])
                IN  /\ parsed # None
                    /\ parsed.directory = panoramas[i].directory
                    /\ parsed.prefix = panoramas[i].prefix })

\* main is over and its loop has dealt with every input, in the order given
AllAttempted ==
    /\ pc = "exited"
    /\ Len(log) = Len(Inputs)
    /\ \A i \in 1 .. Len(log) : log[i].input = i
    /\ tool = "tosphere" =>
          /\ \A k \in 1 .. Len(args) :
                LET parsed == parse_face_path(args[k])
                IN  (parsed # None /\ MissingFaces(parsed.directory, parsed.prefix) = {})
                        => EntriesOf(parsed.directory, parsed.prefix) # {}
          /\ \A i, j \in 1 .. Len(panoramas) : i < j => FirstArgOf(i) < FirstArgOf(j)

\* C13: in every tool's main loop the inputs are dealt with one after the
\* other in the order given, the loop goes on to the next input whatever the
\* result of the one before (missing, failure returned, exception), and
\* eventually every input of the invocation has been attempted.
C13_EveryInputAttemptedInOrder ==
    /\ [][log' # log =>
            /\ Len(log') = Len(log) + 1
            /\ SubSeq(log', 1, Len(log)) = log
            /\ log'[Len(log')].input = Len(log) + 1
            /\ pos' = pos + 1
            /\ pc' = "loop"]_vars
    /\ <>AllAttempted

\* a missing file and an exception came before an input that went well
C13_Witness ==
    /\ pc = "exited"
    /\ Len(log) = 3
    /\ log[1].result = "missing"
    /\ log[2].result = "raise"
    /\ log[3].result = "True"

-----------------------------------------------------------------------------
(* Properties of the tile pipeline's use of memory (SpecTiles) *)

\* the calls of equirect_to_face for a face, as positions in renders
RendersOf(face) == { i \in 1 .. Len(renders) : renders[i][1] = face }

LevelsSaved(face) == { t.level : t \in { s \in out_dir : s.face = face } }

\* C14: each face is rendered by equirect_to_face at most once while the
\* pipeline runs and exactly once when it is done, at the size of the largest
\* level; every tile of the face is cut from that one render, made before the
\* tile, at the level's size (resized for every level but the largest); the
\* levels of a face are saved in ascending order of their 1-based index; and
\* at most one full-resolution render is held at any point.
C14_OneRenderPerFace ==
    /\ Cardinality(live) <= 1
    /\ \A k \in 1 .. Len(FACES) :
          LET face == FACES[k]
          IN  /\ Cardinality(RendersOf(face)) <= 1
              /\ \A i \in RendersOf(face) : renders[i][2] = level_sizes[Len(level_sizes)]
              /\ \A t \in out_dir :
                    t.face = face =>
                        /\ t.src \in RendersOf(face)
                        /\ t.level \in 1 .. Len(level_sizes)
                        /\ t.size = level_sizes[t.level]
                        /\ t.resized <=> (t.level < Len(level_sizes))
              /\ (pc = "tiles" /\ k = face_n) => LevelsSaved(face) = 1 .. li - 1
              /\ (pc = "project" /\ k >= face_n) => LevelsSaved(face) = {}
              /\ pc = "done" =>
                    /\ Cardinality(RendersOf(face)) = 1
                    /\ LevelsSaved(face) = 1 .. Len(level_sizes)
    /\ pc = "done" => (Len(renders) = Len(FACES) /\ live = {})

\* a panorama with several levels went through all six faces
C14_Witness ==
    /\ pc = "done"
    /\ Len(level_sizes) >= 3
    /\ Len(renders) = 6
    /\ \E t \in out_dir : t.resized

-----------------------------------------------------------------------------
(* Properties of the direction mathematics (SpecRound, SpecFaces) *)

\* the fraction q equals num / den, den > 0
IsFraction(q, num, den) ==
    /\ "num" \in DOMAIN q
    /\ q.num * den = num * q.den

\* C15: for every face F and every point (u, v) strictly inside it, the
\* direction the forward table gives for (F, u, v), scaled by any positive
\* factor, is assigned to F by the inverse face selection and the inverse UV
\* formulas give back the same (u, v).
C15_ForwardInverseRoundTrip ==
    (pc = "uv" /\ fwd # None) =>
        /\ FACES[face_idx + 1] = fwd.face
        /\ IsFraction(uv[1], fwd.un, fwd.den)
        /\ IsFraction(uv[2], fwd.vn, fwd.den)

C15_Witness ==
    /\ pc = "uv"
    /\ fwd # None
    /\ fwd.face = "l"
    /\ fwd.un # 0
    /\ fwd.vn # 0
    /\ fwd.scale > 1
    /\ face_idx = 3

\* the component the formulas of the face divide by
Divisor(fi, d) == IF fi \in {0, 1} THEN d[3] ELSE IF fi \in {2, 3} THEN d[1] ELSE d[2]

\* the five masks of the face assignment, by face index
Mask(fi, dx, dy, dz) ==
    CASE fi = 1 -> z_dom(dx, dy, dz) /\ dz < 0
      [] fi = 2 -> x_dom(dx, dy, dz) /\ dx > 0
      [] fi = 3 -> x_dom(dx, dy, dz) /\ dx < 0
      [] fi = 4 -> y_dom(dx, dy, dz) /\ dy > 0
      [] fi = 5 -> y_dom(dx, dy, dz) /\ dy < 0

\* C16: for every direction with a non-zero component at most one of the five
\* masks holds and the face is that of the mask, or Front when none holds,
\* which happens only when dz is positive and strictly greater than |dx| and
\* |dy|; the component the face's formulas divide by is non-zero and has the
\* sign of the face; and u and v are both in [-1, 1].
C16_FaceSelectionTotal ==
    (pc = "uv" /\ fwd = None) =>
        LET dx == dir[1]
            dy == dir[2]
            dz == dir[3]
            held == { fi \in 1 .. 5 : Mask(fi, dx, dy, dz) }
            div == Divisor(face_idx, dir)
        IN  /\ face_idx \in 0 .. 5
            /\ Cardinality(held) <= 1
            /\ held # {} => held = {face_idx}
            /\ held = {} => (face_idx = 0 /\ dz > 0 /\ dz > Abs(dx) /\ dz > Abs(dy))
            /\ div # 0
            /\ (div > 0) <=> (face_idx \in {0, 2, 4})
            /\ \A c \in 1 .. 3 : Abs(dir[c]) <= Abs(div)
            /\ \A c \in 1 .. 2 :
                  /\ "num" \in DOMAIN uv[c]
                  /\ uv[c].den > 0
                  /\ Abs(uv[c].num) <= uv[c].den

\* the default face, for a direction off the axis
C16_Witness ==
    /\ pc = "uv"
    /\ fwd = None
    /\ face_idx = 0
    /\ dir[1] # 0
    /\ dir[2] # 0

-----------------------------------------------------------------------------
(* Index safety of the samplers (SpecSample) *)

\* C17: the four neighbour indices of both samplers are valid.  In the
\* forward sampler the columns are floor(px) and floor(px) + 1 modulo W, in
\* [0, W - 1], and the rows are clamped to [0, H - 1]; in the inverse sampler
\* columns and rows are clamped to [0, face_size - 1] and never wrap: the
\* second neighbour is the first or the one after it.
C17_NeighbourIndicesValid ==
    pc = "sampled" =>
        LET W == BufW(img_np)
            H == BufH(img_np)
        IN  /\ sampled.x0 \in 0 .. W - 1
            /\ sampled.x1 \in 0 .. W - 1
            /\ sampled.y0 \in 0 .. H - 1
            /\ sampled.y1 \in 0 .. H - 1
            /\ sampled.y1 \in {sampled.y0, sampled.y0 + 1}
            /\ sampled.kind = "forward" =>
                  /\ sampled.x0 = Floor(px) % W
                  /\ sampled.x1 = (Floor(px) + 1) % W
            /\ sampled.kind = "inverse" =>
                  /\ sampled.x1 \in {sampled.x0, sampled.x0 + 1}
                  /\ sampled.x0 = (IF Floor(px) > W - 1 THEN W - 1 ELSE Floor(px))

\* the last column of a face: its right neighbour is clamped, not wrapped
C17_Witness ==
    /\ pc = "sampled"
    /\ sampled.kind = "inverse"
    /\ BufW(img_np) >= 2
    /\ Floor(px) = BufW(img_np) - 1
    /\ sampled.x0 = BufW(img_np) - 1
    /\ sampled.x1 = BufW(img_np) - 1

====
